---- MODULE Spec2Model ----
(***************************************************************************)
(* Model of src/pomodoro-timer.jsx: the PomodoroTimer component's timer    *)
(* state machine, its wall-clock anchored countdown, the bell manager and  *)
(* the persisted daily counter.                                            *)
(*                                                                         *)
(* A handler changes refs and host timers at once and queues its state     *)
(* updates.  The updates of a click are rendered, and the effects of the   *)
(* render run, before the click returns.  The updates of an interval        *)
(* callback, of the visibilitychange listener and of the promise            *)
(* continuation wait in `pending` for a render of their own (Render): a     *)
(* click can be handled before it, with the handlers of the last committed  *)
(* render.  The effects of that render run in a later task again (Effects): *)
(* a handler can run between its commit and its effects, the refs and the   *)
(* visibilitychange listener still being those the effects of the render    *)
(* before left.  The render of a click either takes the pending updates     *)
(* along                                                                    *)
(* or leaves them for the later render, which replays the click's updates   *)
(* after them: React is not part of the source, which of the two the build  *)
(* does is fixed at the mount (unifiedLanes).                               *)
(* Time is the value of Date.now() in milliseconds.                        *)
(***************************************************************************)
EXTENDS Integers, Sequences, FiniteSets, TLC

VARIABLES
    mode,              \* useState("focus")                       line 97
    timeLeft,          \* useState(MODES.focus.duration)          line 98
    running,           \* useState(false)                         line 99
    sessions,          \* useState(0)                             line 100
    dailySessions,     \* useState(0)                             line 101
    loaded,            \* useState(false)                         line 102
    bellActive,        \* useState(false)                         line 103
    alertMsg,          \* useState("")                            line 104
    intervalRef,       \* useRef(null): id of the tick interval   line 105
    startedAtRef,      \* useRef(null): Date.now() at (re)start   line 106
    remainingAtStart,  \* useRef(null): timeLeft at (re)start     line 107
    modeRef,           \* useRef(mode)                            line 108
    effectRunning,     \* React: `running` of the last render whose effects
                       \* ran (the dependency the effects of lines 169-211
                       \* compare with, and the `running` the subscribed
                       \* visibilitychange listener closes over)
    tickLoops,         \* host: live setInterval(.., 500) timers, [id, due]
    bellIntervalId,    \* bell manager: intervalId                line 48
    bellTimeoutId,     \* bell manager: timeoutId                 line 49
    bellLoops,         \* host: live setInterval(.., 4000) timers, [id, due]
    bellTimeouts,      \* host: live setTimeout(stop, 60000) timers, [id, due]
    bellSeq,           \* host: the id the next bell timer gets
    store,             \* window.storage: day key -> stored number or Absent
    inFlight,          \* host: window.storage.set calls that have not completed,
                       \* [key, value, seq]
    loadValue,         \* what loadTodaySessions() will resolve to
    now,               \* Date.now(), in ms
    pending,           \* React: state updates queued and not rendered yet
    unifiedLanes,      \* React: a click's render takes the pending updates along
    \* ---- history variables (not program state) ----
    lastOp,            \* the handler that ran last
    pausedLeft,        \* timeLeft shown at the pause the timer is resting in
    writes,            \* number of window.storage.set calls issued so far
    lastWrite,         \* the value of the last window.storage.set call
    doneOn,            \* day key -> Focus sessions completed on that day
    setsFailed,        \* number of window.storage.set calls that failed
    finishCalls,       \* finishSession invocations since the last user start
                       \* or start snapshot
    runMs,             \* ms spent running since the render of the last
                       \* reset, switchMode or expiry
    restLeft,          \* the timeLeft which that render left
    advances,          \* number of time steps taken
    lastStrike,        \* the instant of the last strikeBell call
    lastBellStart      \* the instant of the last bell.start() call

timerVars == <<mode, timeLeft, running, intervalRef, startedAtRef,
               remainingAtStart, modeRef, effectRunning, tickLoops>>
countVars == <<sessions, dailySessions, loaded, store, loadValue>>
bellVars  == <<bellActive, alertMsg, bellIntervalId, bellTimeoutId,
               bellLoops, bellTimeouts, bellSeq, lastStrike, lastBellStart>>
runVars   == <<runMs, restLeft>>
histVars  == <<lastOp, pausedLeft, writes, lastWrite, doneOn, finishCalls, runVars, advances>>
bellMgrVars == <<bellIntervalId, bellTimeoutId, bellLoops, bellTimeouts,
                 bellSeq, lastStrike, lastBellStart>>
writeVars == <<writes, lastWrite, doneOn, inFlight>>
setVars   == <<inFlight, setsFailed>>
vars      == <<timerVars, countVars, bellVars, now, pending, unifiedLanes, histVars,
               setVars>>

\* null in a ref and an absent storage key: a value no timestamp, duration or
\* count takes
Null   == 0 - 1
Absent == 0 - 1

----------------------------------------------------------------------------
(* Bounds of the model *)

MaxBellStarts   == 2   \* bell.start() calls per behaviour of the bell manager
MaxBellAdvances == 18  \* time steps per behaviour of the bell manager
MaxLiveRuns == 2       \* runs per behaviour when time is left unbounded
MaxAdvances == 2       \* time steps per behaviour: one run to its expiry
MaxWriteAdvances == 4  \* time steps per behaviour of two Focus runs on one day
MaxButtonAdvances == 3 \* time steps per behaviour of the start/pause button alone
StoredToday == 7      \* a value a previous process left under today's key

\* Short steps by which Date.now() advances between two handlers: a second
\* and a second and a half (three tick periods)
ShortSteps == {1000, 1500}

----------------------------------------------------------------------------
(* Configuration and pure helpers *)

FocusDuration == 1500
ShortDuration == 300
LongDuration  == 900
TickPeriod    == 500
BellPeriod    == 4000
BellTimeout   == 60000
MsPerDay      == 86400000

ModeKeys == {"focus", "short", "long"}

\* MODES[m].duration
Duration(m) ==
    CASE m = "focus" -> FocusDuration
      [] m = "short" -> ShortDuration
      [] m = "long"  -> LongDuration

FocusMsg == "Focus session complete! Time for a break."
BreakMsg == "Break is over! Let's get back to work."

\* Number(x) of a ref used in arithmetic: null converts to 0
NumberOf(x) == IF x = Null THEN 0 ELSE x

\* a recomputation that adds the elapsed time
RemainingMsAdds(sAt, rem, t) ==
    LET r == NumberOf(rem) * 1000 + (t - NumberOf(sAt))
    IN  IF r > 0 THEN r ELSE 0

\* Math.max(remainingAtStart.current - (Date.now() - startedAtRef.current) / 1000, 0),
\* in ms (the quotient by 1000 is exact in ms)
RemainingMs(sAt, rem, t) ==
    LET r == NumberOf(rem) * 1000 - (t - NumberOf(sAt))
    IN  IF r > 0 THEN r ELSE 0

\* Math.ceil(ms / 1000) for ms >= 0
CeilSec(ms) == (ms + 999) \div 1000

\* todayKey(): one key per calendar day
TodayKey(t) == t \div MsPerDay

\* a finishSession that escalates a break to the long break
NextModeEscalates(m) == IF m = "focus" THEN "short" ELSE "long"

\* the mode finishSession moves to
NextModeAfter(m) == IF m = "focus" THEN "short" ELSE "focus"

\* The state updates of one handler, hook by hook: the last value given to
\* setTimeLeft and setMode (Null, "none": no call), the calls of setRunning in
\* order ("false": setRunning(false), "toggle": setRunning(r => !r)), the
\* number of setSessions(s => s + 1), the calls of setDaily in order (Inc: the
\* updater d => d + 1 that saves, n: setDaily(n)), setLoaded(true), and the last
\* alert set ("none": no call, "": setBellActive(false) and setAlertMsg("")).
\* `base` is the value of `running` that queued setRunning calls apply to.
Inc == 0 - 1
NoPending ==
    [timeLeft |-> Null, mode |-> "none", running |-> <<>>, base |-> FALSE,
     sessions |-> 0, daily |-> <<>>, loaded |-> FALSE, alert |-> "none"]

\* `running` after the setRunning calls us, from r
RECURSIVE RunningAfter(_, _)
RunningAfter(r, us) ==
    IF us = <<>> THEN r
    ELSE RunningAfter(IF Head(us) = "toggle" THEN ~r ELSE FALSE, Tail(us))

\* The shortest queue of setRunning calls that does what us does: calls before
\* a setRunning(false) have no effect and two toggles cancel each other
Shortest(us) ==
    IF us = <<>> THEN <<>>
    ELSE IF \E i \in 1 .. Len(us) : us[i] = "false"
      THEN IF RunningAfter(FALSE, us) THEN <<"false", "toggle">> ELSE <<"false">>
      ELSE IF RunningAfter(FALSE, us) THEN <<"toggle">> ELSE <<"toggle", "toggle">>

\* the updates of b queued after those of q
Queued(q, b) ==
    [timeLeft |-> IF b.timeLeft # Null THEN b.timeLeft ELSE q.timeLeft,
     mode     |-> IF b.mode # "none" THEN b.mode ELSE q.mode,
     running  |-> Shortest(q.running \o b.running),
     base     |-> q.base,
     sessions |-> q.sessions + b.sessions,
     daily    |-> q.daily \o b.daily,
     loaded   |-> q.loaded \/ b.loaded,
     alert    |-> IF b.alert # "none" THEN b.alert ELSE q.alert]

\* What a render that leaves the updates of q aside keeps queued when the
\* updates of b were made after them: a hook replays the updates that follow
\* one it left aside, so b's update of a hook stays queued where q has one
Rebased(q, b) ==
    [timeLeft |-> IF q.timeLeft # Null /\ b.timeLeft # Null
                    THEN b.timeLeft ELSE q.timeLeft,
     mode     |-> IF q.mode # "none" /\ b.mode # "none" THEN b.mode ELSE q.mode,
     running  |-> IF q.running # <<>> THEN Shortest(q.running \o b.running)
                                      ELSE <<>>,
     base     |-> q.base,
     sessions |-> q.sessions,
     daily    |-> q.daily,
     loaded   |-> q.loaded,
     alert    |-> IF q.alert # "none" /\ b.alert # "none" THEN b.alert ELSE q.alert]

\* `dailySessions` after the setDaily calls us, from d
RECURSIVE DailyAfter(_, _)
DailyAfter(d, us) ==
    IF us = <<>> THEN d
    ELSE DailyAfter(IF Head(us) = Inc THEN d + 1 ELSE Head(us), Tail(us))

\* the values the setDaily calls us pass to saveTodaySessions, from d
RECURSIVE SavesOf(_, _)
SavesOf(d, us) ==
    IF us = <<>> THEN <<>>
    ELSE IF Head(us) = Inc THEN <<d + 1>> \o SavesOf(d + 1, Tail(us))
                           ELSE SavesOf(Head(us), Tail(us))

----------------------------------------------------------------------------
(* Initial state: the component right after mount *)

\* Date.now() at mount: 25 minutes and half a second before midnight of day 0,
\* so that a Focus run ends before or after the date changes, as its last
\* callback is on time or half a second late
Epoch == MsPerDay - 1500500
Days  == 0 .. 1  \* the day keys window.storage may hold

\* loadTodaySessions(): res ? Number(res.value) : 0, and 0 when get() throws
LoadResults(st, t) ==
    IF st[TodayKey(t)] = Absent THEN {0} ELSE {st[TodayKey(t)], 0}

\* window.storage at the mount: nothing stored, or a count stored today
NothingStored == [d \in Days |-> Absent]
CountStored ==
    [d \in Days |-> IF d = TodayKey(Epoch) THEN StoredToday ELSE Absent]

\* the component right after its mount at the instant t, window.storage
\* being st
Mounted(st, t) ==
    /\ mode = "focus"
    /\ timeLeft = Duration("focus")
    /\ running = FALSE
    /\ sessions = 0
    /\ dailySessions = 0
    /\ loaded = FALSE
    /\ bellActive = FALSE
    /\ alertMsg = ""
    /\ intervalRef = Null
    /\ startedAtRef = Null
    /\ remainingAtStart = Null
    /\ modeRef = "focus"
    /\ effectRunning = FALSE
    /\ tickLoops = {}
    /\ bellIntervalId = Null
    /\ bellTimeoutId = Null
    /\ bellLoops = {}
    /\ bellTimeouts = {}
    /\ bellSeq = 1
    /\ lastStrike = Null
    /\ lastBellStart = Null
    /\ now = t
    /\ pending = NoPending
    /\ unifiedLanes \in BOOLEAN
    /\ store = st
    /\ inFlight = {}
    /\ loadValue \in LoadResults(st, t)
    /\ lastOp = "init"
    /\ pausedLeft = Null
    /\ writes = 0
    /\ lastWrite = Null
    /\ doneOn = [d \in Days |-> 0]
    /\ setsFailed = 0
    /\ finishCalls = 0
    /\ runMs = 0
    /\ restLeft = FocusDuration
    /\ advances = 0

\* the mount with nothing stored
Init == Mounted(NothingStored, Epoch)

\* the mount on a day that has a stored count
StoredInit == Mounted(CountStored, Epoch)

----------------------------------------------------------------------------
(* Re-render and effects *)

\* clearInterval(id) on the host's tick timers
ClearTick(loops, id) == {l \in loops : l.id # id}

\* the cleanup of the main timer effect (lines 190-193): the host's tick timers
\* after clearInterval(intervalRef.current)
EffectCleanup(loops, iv) == ClearTick(loops, iv)

\* The refs and the host's tick timers that a handler leaves, with
\* startedAtRef.current sAt, intervalRef.current iv and the tick timers loops
HandlerRefs(sAt, iv, loops) ==
    [running |-> effectRunning, modeRef |-> modeRef, startedAt |-> sAt,
     remaining |-> remainingAtStart, interval |-> iv, loops |-> loops]

\* The passive effects of a render with mode m, timeLeft t and running r, run
\* on the refs e: the modeRef effect (line 111) and, when `running` is not the
\* one of the render whose effects ran last, the cleanup and the body of the
\* main timer effect (lines 169-194) and the new subscription of onVisible
\* (lines 197-211)
EffectsOf(m, t, r, e) ==
    IF r = e.running
      THEN [e EXCEPT !.modeRef = m]
      ELSE IF r
        THEN [running   |-> TRUE,
              modeRef   |-> m,
              startedAt |-> IF e.startedAt = Null THEN now ELSE e.startedAt,
              remaining |-> IF e.startedAt = Null THEN t ELSE e.remaining,
              interval  |-> now,
              loops     |-> EffectCleanup(e.loops, e.interval) \cup
                              {[id |-> now, due |-> now + TickPeriod]}]
        ELSE [e EXCEPT !.running = FALSE, !.modeRef = m, !.interval = Null,
                       !.loops = EffectCleanup(e.loops, e.interval)]

\* the effects of the committed render that have not run yet, run on the refs e
Flushed(e) == EffectsOf(mode, timeLeft, running, e)

\* the effects of the committed render have run
EffectsDone == effectRunning = running /\ modeRef = mode

\* the refs and the host's tick timers become those of e
SetRefs(e) ==
    /\ effectRunning' = e.running
    /\ modeRef' = e.modeRef
    /\ startedAtRef' = e.startedAt
    /\ remainingAtStart' = e.remaining
    /\ intervalRef' = e.interval
    /\ tickLoops' = e.loops

\* the commit of a render with mode m, timeLeft t and running r
Commit(m, t, r) ==
    /\ mode' = m
    /\ timeLeft' = t
    /\ running' = r

\* a save of the counter's value before the increment
SaveStaleSessions(n) ==
    /\ writes' = writes + 1
    /\ lastWrite' = n - 1
    /\ doneOn' = [doneOn EXCEPT ![TodayKey(now)] = @ + 1]
    /\ inFlight' = inFlight \cup
                     {[key |-> TodayKey(now), value |-> n - 1, seq |-> writes + 1]}

\* saveTodaySessions(n) up to its await: window.storage.set(todayKey(),
\* String(n)) is called with today's key and is not waited for; the call
\* completes in a later task
SaveTodaySessions(n) ==
    /\ writes' = writes + 1
    /\ lastWrite' = n
    /\ doneOn' = [doneOn EXCEPT ![TodayKey(now)] = @ + 1]
    /\ inFlight' = inFlight \cup
                     {[key |-> TodayKey(now), value |-> n, seq |-> writes + 1]}

\* the history of a render: it is that of a reset, a switchMode or an expiry,
\* which begins a new account of the time spent running, or it is not
Rest(begins) ==
    /\ runMs' = IF begins THEN 0 ELSE runMs
    /\ restLeft' = IF begins THEN timeLeft' ELSE restLeft

\* the value of `running` that the queued setRunning calls apply to
BaseRunning == IF pending.running = <<>> THEN running ELSE pending.base

\* A render of the updates q, whose setRunning calls apply to r0, and its
\* commit; the updater of setDaily runs in the render and saves (lines 145-149)
RenderQueue(q, r0) ==
    /\ Commit(IF q.mode = "none" THEN mode ELSE q.mode,
              IF q.timeLeft = Null THEN timeLeft ELSE q.timeLeft,
              IF q.running = <<>> THEN running ELSE RunningAfter(r0, q.running))
    /\ sessions' = sessions + q.sessions
    /\ dailySessions' = DailyAfter(dailySessions, q.daily)
    /\ loaded' = (loaded \/ q.loaded)
    /\ bellActive' = IF q.alert = "none" THEN bellActive ELSE q.alert # ""
    /\ alertMsg' = IF q.alert = "none" THEN alertMsg ELSE q.alert
    /\ LET saves == SavesOf(dailySessions, q.daily)
       IN  IF saves = <<>>
             THEN UNCHANGED writeVars
             ELSE SaveTodaySessions(saves[Len(saves)])
    /\ UNCHANGED <<store, setsFailed>>

\* The updates b of a callback that is not a click are queued for a later
\* render; React drops an update that leaves the state as it is when nothing
\* else is queued
Enqueue(b) ==
    pending' =
      IF pending = NoPending /\ b = [NoPending EXCEPT !.timeLeft = timeLeft]
        THEN NoPending
        ELSE [Queued(pending, b) EXCEPT
                !.base = IF pending.running = <<>> /\ b.running # <<>>
                           THEN running ELSE pending.base]

\* The updates b of a click handler that left sAt, iv and loops are rendered
\* before the click returns: together with the pending updates, which were
\* queued first, or on their own, the pending updates staying queued for the
\* later render.  Effects that the committed render left to run are run before
\* the click's render, after the handler; the effects of the click's render run
\* with its commit.
Click(b, sAt, iv, loops) ==
    /\ IF unifiedLanes
         THEN /\ RenderQueue(Queued(pending, b), BaseRunning)
              /\ pending' = NoPending
              /\ Rest(b.timeLeft # Null \/ pending.mode # "none")
         ELSE /\ RenderQueue(b, running)
              /\ pending' = Rebased(pending, b)
              /\ Rest(b.timeLeft # Null)
    /\ SetRefs(EffectsOf(mode', timeLeft', running',
                         Flushed(HandlerRefs(sAt, iv, loops))))

\* the history of a handler named op, which leaves the timer resting in a
\* pause that shows p (Null: not in a pause)
Hist(op, p) ==
    /\ lastOp' = op
    /\ pausedLeft' = p
    /\ UNCHANGED <<advances, unifiedLanes>>

\* the history of a step that is not the user's start: the count of
\* finishSession invocations begins anew with a new start snapshot
RunHist ==
    finishCalls' = IF startedAtRef = Null /\ startedAtRef' # Null
                     THEN 0 ELSE finishCalls

\* The render React scheduled for the pending updates, up to its commit: its
\* effects run in a later task.  Effects that the committed render left to run
\* are run before the render.
Render ==
    /\ pending # NoPending
    /\ RenderQueue(pending, BaseRunning)
    /\ SetRefs(Flushed(HandlerRefs(startedAtRef, intervalRef, tickLoops)))
    /\ pending' = NoPending
    /\ Hist("render", IF pausedLeft = Null THEN Null ELSE timeLeft')
    /\ Rest(pending.mode # "none")
    /\ RunHist
    /\ UNCHANGED <<loadValue, bellMgrVars, now>>

\* the task in which the effects of a scheduled render run
Effects ==
    /\ ~EffectsDone
    /\ SetRefs(Flushed(HandlerRefs(startedAtRef, intervalRef, tickLoops)))
    /\ Hist("effects", pausedLeft)
    /\ RunHist
    /\ UNCHANGED <<mode, timeLeft, running, countVars, bellVars, now, pending,
                   writes, lastWrite, doneOn, setVars, runVars>>

----------------------------------------------------------------------------
(* Completion of the writes *)

\* The window.storage.set call w resolves: the value it was called with is
\* stored under the key it was called with, and the await of
\* saveTodaySessions returns to nothing.  The host completes the calls in
\* flight in any order.
StorageSetResolves(w) ==
    /\ w \in inFlight
    /\ inFlight' = inFlight \ {w}
    /\ store' = [store EXCEPT ![w.key] = w.value]
    /\ UNCHANGED <<timerVars, sessions, dailySessions, loaded, loadValue,
                   bellVars, now, pending, unifiedLanes, histVars, setsFailed>>

\* the window.storage.set call w rejects: catch {} of saveTodaySessions
StorageSetRejects(w) ==
    /\ w \in inFlight
    /\ inFlight' = inFlight \ {w}
    /\ setsFailed' = setsFailed + 1
    /\ UNCHANGED <<timerVars, countVars, bellVars, now, pending, unifiedLanes,
                   histVars>>

----------------------------------------------------------------------------
(* User actions *)

\* what the start/pause button leaves in startedAtRef.current when pausing
PauseAnchor == Null

\* the updates of the start/pause button: setRunning(r => !r)
ToggleBatch == [NoPending EXCEPT !.running = <<"toggle">>]

\* start/pause button rendered while not running: setRunning(r => !r)
Start ==
    /\ ~running
    /\ Click(ToggleBatch, startedAtRef, intervalRef, tickLoops)
    /\ Hist("start", Null)
    /\ finishCalls' = 0
    /\ UNCHANGED <<loadValue, bellMgrVars, now>>

\* start/pause button rendered while running: clear the snapshot,
\* setRunning(r => !r)
Pause ==
    /\ running
    /\ Click(ToggleBatch, PauseAnchor, intervalRef, tickLoops)
    /\ Hist("pause", timeLeft')
    /\ RunHist
    /\ UNCHANGED <<loadValue, bellMgrVars, now>>

\* the value the reset button passes to setTimeLeft: MODES[mode].duration, with
\* the mode of the render the button belongs to
ResetTime == Duration(mode)

\* reset button
Reset ==
    /\ Click([NoPending EXCEPT !.running = <<"false">>, !.timeLeft = ResetTime],
             Null, Null, ClearTick(tickLoops, intervalRef))
    /\ Hist("reset", Null)
    /\ RunHist
    /\ UNCHANGED <<loadValue, bellMgrVars, now>>

\* the name of the handler of mode tab m
SwitchOp(m) == "switch_" \o m

\* the setRunning calls of switchMode
SwitchRunning == <<"false">>

\* a mode tab: switchMode(m)
SwitchMode(m) ==
    /\ Click([NoPending EXCEPT !.running = SwitchRunning, !.mode = m,
                               !.timeLeft = Duration(m)],
             Null, Null, ClearTick(tickLoops, intervalRef))
    /\ Hist(SwitchOp(m), Null)
    /\ RunHist
    /\ UNCHANGED <<loadValue, bellMgrVars, now>>

----------------------------------------------------------------------------
(* Bell manager *)

\* bell.start(): strikeBell at once, setInterval(strike, 4000) and
\* setTimeout(stop, 60000); the host numbers its timers in creation order
BellStart ==
    /\ bellLoops' = bellLoops \cup {[id |-> bellSeq, due |-> now + BellPeriod]}
    /\ bellTimeouts' = bellTimeouts \cup
                         {[id |-> bellSeq + 1, due |-> now + BellTimeout]}
    /\ bellIntervalId' = bellSeq
    /\ bellTimeoutId' = bellSeq + 1
    /\ bellSeq' = bellSeq + 2
    /\ lastStrike' = now
    /\ lastBellStart' = now

\* bell.stop(), after the host dropped the timers in `fired`: clearInterval
\* and clearTimeout of the two ids the manager holds
BellStop(fired) ==
    /\ bellLoops' = {l \in bellLoops : l.id # bellIntervalId}
    /\ bellTimeouts' = {t \in bellTimeouts \ fired : t.id # bellTimeoutId}
    /\ bellIntervalId' = Null
    /\ bellTimeoutId' = Null
    /\ UNCHANGED <<bellSeq, lastStrike, lastBellStart>>

\* the updates of triggerBell(msg): setBellActive(true); setAlertMsg(msg)
TriggerBell(msg) == [NoPending EXCEPT !.alert = msg]

----------------------------------------------------------------------------
(* Expiry *)

\* a finishSession without its first four statements
FinishStopMissing(loops) ==
    [running |-> <<>>, iv |-> intervalRef, loops |-> loops,
     startedAt |-> startedAtRef]

\* the first four statements of finishSession: the setRunning call, and what
\* they leave in intervalRef.current, the host's tick timers and
\* startedAtRef.current
FinishStop(loops) ==
    [running |-> <<"false">>, iv |-> Null, loops |-> ClearTick(loops, intervalRef),
     startedAt |-> Null]

\* setTimeLeft(0); finishSession(), called by the callback op with the host's
\* tick timers being loops: the refs and the bell change at once, the state
\* updates are queued, the last setTimeLeft being the new mode's duration.
FinishSession(op, loops) ==
    LET stop == FinishStop(loops)
        next == NextModeAfter(modeRef)
        msg  == IF modeRef = "focus" THEN FocusMsg ELSE BreakMsg
    IN  /\ intervalRef' = stop.iv
        /\ tickLoops' = stop.loops
        /\ startedAtRef' = stop.startedAt
        /\ BellStart
        /\ Enqueue([TriggerBell(msg) EXCEPT
                      !.running = stop.running,
                      !.sessions = IF modeRef = "focus" THEN 1 ELSE 0,
                      !.daily = IF modeRef = "focus" THEN <<Inc>> ELSE <<>>,
                      !.mode = next,
                      !.timeLeft = Duration(next)])
        /\ Hist(op, Null)
        /\ finishCalls' = finishCalls + 1
        /\ UNCHANGED <<mode, timeLeft, running, remainingAtStart, modeRef,
                       effectRunning, countVars, bellActive, alertMsg, now, writes, lastWrite,
                       doneOn, setVars, runVars>>

\* a countdown that decrements the displayed value on every callback
ShownDecrement(sAt, rem, t) == timeLeft - 1

\* the value a recomputation passes to setTimeLeft when time remains
ShownSeconds(sAt, rem, t) == CeilSec(RemainingMs(sAt, rem, t))

\* the expiry test of a recomputation: remaining <= 0
Expired(ms) == ms <= 0

\* the body shared by the interval callback and onVisible (lines 178-186 and
\* 200-207)
Recompute(op, opExpire, loops) ==
    IF Expired(RemainingMs(startedAtRef, remainingAtStart, now))
      THEN FinishSession(opExpire, loops)
      ELSE /\ Enqueue([NoPending EXCEPT
                         !.timeLeft = ShownSeconds(startedAtRef, remainingAtStart, now)])
           /\ tickLoops' = loops
           /\ Hist(op, pausedLeft)
           /\ UNCHANGED <<mode, timeLeft, running, intervalRef, startedAtRef,
                          remainingAtStart, modeRef, effectRunning, countVars,
                          bellVars, now,
                          writes, lastWrite, doneOn, setVars, finishCalls, runVars>>

\* the interval callback of the main timer effect, for a live timer l that is due
Tick(l) ==
    /\ l \in tickLoops
    /\ now >= l.due
    /\ Recompute("tick", "tickExpire",
                 (tickLoops \ {l}) \cup {[id |-> l.id, due |-> now + TickPeriod]})

\* what onVisible's guard tests, `running` being that of the render whose
\* effect subscribed the listener
VisibleGuard == effectRunning /\ startedAtRef # Null

\* the visibilitychange listener
OnVisible ==
    IF VisibleGuard
      THEN Recompute("visible", "visibleExpire", tickLoops)
      ELSE /\ Hist("visibleNoop", pausedLeft)
           /\ UNCHANGED <<timerVars, countVars, bellVars, now, pending, writes,
                          lastWrite, doneOn, setVars, finishCalls, runVars>>

----------------------------------------------------------------------------
(* Alert dismissal, bell auto-stop, startup load, time *)

\* the alert banner's dismiss button (rendered while bellActive)
DismissBell ==
    /\ bellActive
    /\ BellStop({})
    /\ Click([NoPending EXCEPT !.alert = ""], startedAtRef, intervalRef, tickLoops)
    /\ Hist("dismiss", pausedLeft)
    /\ RunHist
    /\ UNCHANGED <<loadValue, now>>

\* the interval callback of the bell manager, for a live timer l that is due:
\* strikeBell
BellStrike(l) ==
    /\ l \in bellLoops
    /\ now >= l.due
    /\ bellLoops' = (bellLoops \ {l}) \cup {[id |-> l.id, due |-> now + BellPeriod]}
    /\ lastStrike' = now
    /\ Hist("bellStrike", pausedLeft)
    /\ UNCHANGED <<timerVars, countVars, bellActive, alertMsg, bellIntervalId,
                   bellTimeoutId, bellTimeouts, bellSeq, lastBellStart, now,
                   pending, writes, lastWrite, doneOn, setVars, finishCalls, runVars>>

\* setTimeout(stop, 60000) of the bell manager fires for the timer t
BellAutoStop(t) ==
    /\ t \in bellTimeouts
    /\ now >= t.due
    /\ BellStop({t})
    /\ Hist("bellAutoStop", pausedLeft)
    /\ UNCHANGED <<timerVars, countVars, bellActive, alertMsg, now, pending,
                   writes, lastWrite, doneOn, setVars, finishCalls, runVars>>

\* loadTodaySessions().then(n => { setDaily(n); setLoaded(true); })
LoadComplete ==
    /\ ~loaded
    /\ ~pending.loaded
    /\ Enqueue([NoPending EXCEPT !.daily = <<loadValue>>, !.loaded = TRUE])
    /\ Hist("load", pausedLeft)
    /\ UNCHANGED <<timerVars, countVars, bellVars, now, writes, lastWrite,
                   doneOn, setVars, finishCalls, runVars>>

\* The steps time may take: the short ones and, during a run, the jump to one
\* second before the anchored end (a long stretch with the tab in the background
\* or the callbacks delayed)
Deltas ==
    ShortSteps \cup
      {RemainingMs(startedAtRef, remainingAtStart, now) - 1000 :
         x \in {y \in {1} : running /\ startedAtRef # Null
                   /\ RemainingMs(startedAtRef, remainingAtStart, now) > 2000}}

\* Date.now() advances by d between two handlers; the render of queued updates
\* is not kept waiting that long
Advance(d) ==
    /\ advances < MaxAdvances
    /\ pending = NoPending
    /\ EffectsDone
    /\ now' = now + d
    /\ advances' = advances + 1
    /\ runMs' = IF running THEN runMs + d ELSE runMs
    /\ UNCHANGED restLeft
    /\ lastOp' = "advance"
    /\ UNCHANGED <<pausedLeft, timerVars, countVars, bellVars, pending, unifiedLanes, writes,
                   lastWrite, doneOn, setVars, finishCalls>>

Next ==
    \/ Start
    \/ Pause
    \/ Reset
    \/ \E m \in ModeKeys : SwitchMode(m)
    \/ \E l \in tickLoops : Tick(l)
    \/ OnVisible
    \/ Render
    \/ Effects
    \/ DismissBell
    \/ LoadComplete
    \/ \E d \in Deltas : Advance(d)

\* The timer, the clicks, the startup load and the renders.  The callbacks of
\* the bell's own timers, which touch the bell manager alone, run in BellSpec
\* and in LiveSpec; the completions of the writes, which touch window.storage
\* alone, run in StoredSpec and in WriteSpec.
Spec == Init /\ [][Next]_vars

StoredNext ==
    \/ Next
    \/ \E w \in inFlight : StorageSetResolves(w)
    \/ \E w \in inFlight : StorageSetRejects(w)

\* the same and the completions of the writes, from a mount on a day that has
\* a stored count
StoredSpec == StoredInit /\ [][StoredNext]_vars

----------------------------------------------------------------------------
(* The start/pause button and the timer alone, over a longer time: no reset,  *)
(* mode tab, visibility event, dismissal or startup load                      *)

\* Date.now() advances by d between two handlers
ButtonAdvance(d) ==
    /\ advances < MaxButtonAdvances
    /\ pending = NoPending
    /\ EffectsDone
    /\ now' = now + d
    /\ advances' = advances + 1
    /\ runMs' = IF running THEN runMs + d ELSE runMs
    /\ UNCHANGED restLeft
    /\ lastOp' = "advance"
    /\ UNCHANGED <<pausedLeft, timerVars, countVars, bellVars, pending, unifiedLanes, writes,
                   lastWrite, doneOn, setVars, finishCalls>>

ButtonNext ==
    \/ Start
    \/ Pause
    \/ \E l \in tickLoops : Tick(l)
    \/ Render
    \/ Effects
    \/ \E d \in Deltas : ButtonAdvance(d)

ButtonSpec == Init /\ [][ButtonNext]_vars

----------------------------------------------------------------------------
(* Focus runs one after the other on one day, each started by the button and  *)
(* the break after it skipped with the Focus tab, and their writes            *)

\* Date.now() at a mount in the first instant of day 0
DayStart == 0

WriteInit == Mounted(NothingStored, DayStart)

\* Date.now() advances by d during an anchored run
WriteAdvance(d) ==
    /\ advances < MaxWriteAdvances
    /\ running
    /\ startedAtRef # Null
    /\ pending = NoPending
    /\ EffectsDone
    /\ now' = now + d
    /\ advances' = advances + 1
    /\ runMs' = runMs + d
    /\ UNCHANGED restLeft
    /\ lastOp' = "advance"
    /\ UNCHANGED <<pausedLeft, timerVars, countVars, bellVars, pending, unifiedLanes, writes,
                   lastWrite, doneOn, setVars, finishCalls>>

WriteNext ==
    \/ Start
    \/ SwitchMode("focus")
    \/ \E l \in tickLoops : Tick(l)
    \/ Render
    \/ Effects
    \/ LoadComplete
    \/ \E w \in inFlight : StorageSetResolves(w)
    \/ \E w \in inFlight : StorageSetRejects(w)
    \/ \E d \in Deltas : WriteAdvance(d)

WriteSpec == WriteInit /\ [][WriteNext]_vars

----------------------------------------------------------------------------
(* The bell manager under any sequence of start() and stop() calls, with the  *)
(* host firing its timers on time and in the order they fall due              *)

nonTimerVars == <<timerVars, countVars, now, writes, lastWrite, doneOn, setVars, finishCalls, runVars>>

\* the instants at which a bell timer falls due
BellDues == {l.due : l \in bellLoops} \cup {t.due : t \in bellTimeouts}

\* no bell timer falls due before the instant d
NoneDueBefore(d) == \A e \in BellDues : e >= d

\* triggerBell(msg): bell.start(), whatever the bell's state, and the alert
\* banner's updates
BellRing(msg) ==
    /\ bellSeq < 1 + 2 * MaxBellStarts
    /\ BellStart
    /\ Enqueue(TriggerBell(msg))
    /\ Hist("bellStart", pausedLeft)
    /\ UNCHANGED <<bellActive, alertMsg, nonTimerVars>>

\* bell.stop() called on its own: the unmount cleanup, or a stop while idle
BellStopCall ==
    /\ BellStop({})
    /\ Hist("bellStop", pausedLeft)
    /\ UNCHANGED <<bellActive, alertMsg, pending, nonTimerVars>>

\* the host runs the bell interval l, the earliest timer due
BellStrikeOnTime(l) ==
    /\ NoneDueBefore(l.due)
    /\ BellStrike(l)

\* the host runs the bell timeout t, the earliest timer due
BellAutoStopOnTime(t) ==
    /\ NoneDueBefore(t.due)
    /\ BellAutoStop(t)

\* the steps time may take for the bell: two seconds, or up to the next timer
BellDeltas == {2000} \cup {e - now : e \in BellDues}

\* time advances, but not past a bell timer that is due
BellAdvance(d) ==
    /\ advances < MaxBellAdvances
    /\ pending = NoPending
    /\ d > 0
    /\ NoneDueBefore(now + d)
    /\ now' = now + d
    /\ advances' = advances + 1
    /\ lastOp' = "advance"
    /\ UNCHANGED <<pausedLeft, timerVars, countVars, bellVars, pending, unifiedLanes, writes,
                   lastWrite, doneOn, setVars, finishCalls, runVars>>

BellNext ==
    \/ \E msg \in {FocusMsg, BreakMsg} : BellRing(msg)
    \/ Render
    \/ DismissBell
    \/ BellStopCall
    \/ \E l \in bellLoops : BellStrikeOnTime(l)
    \/ \E t \in bellTimeouts : BellAutoStopOnTime(t)
    \/ \E d \in BellDeltas : BellAdvance(d)

BellSpec == Init /\ [][BellNext]_vars

----------------------------------------------------------------------------
(* Runs that the user leaves alone, but for a click on the pause button that  *)
(* overtakes the render of an expiry: no reset or mode switch.  Time passes   *)
(* during a run for as long as anchored time remains, the host keeps running  *)
(* the tick interval and React renders the updates it queued and runs the     *)
(* effects of its renders.                                                    *)

\* the start button, for a bounded number of runs
LiveStart ==
    /\ bellSeq < 1 + 2 * MaxLiveRuns
    /\ Start

\* a click on the pause button that is handled between an expiry callback and
\* the render of its updates, for a bounded number of runs
LivePause ==
    /\ bellSeq < 1 + 2 * MaxLiveRuns
    /\ pending.running # <<>>
    /\ Pause

\* a short step taken while more than two seconds of the run remain
FarStep(d) ==
    /\ d \in ShortSteps
    /\ RemainingMs(startedAtRef, remainingAtStart, now) > 2000

\* The steps time takes during a run that is left alone: the jump to one second
\* before the end and, in the last two seconds, the short steps
LiveDeltas == {d \in Deltas : ~FarStep(d)}

\* Date.now() advances by d during an anchored run that has time left
LiveAdvance(d) ==
    /\ running
    /\ startedAtRef # Null
    /\ pending = NoPending
    /\ EffectsDone
    /\ RemainingMs(startedAtRef, remainingAtStart, now) > 0
    /\ now' = now + d
    /\ runMs' = runMs + d
    /\ UNCHANGED restLeft
    /\ lastOp' = "advance"
    /\ UNCHANGED <<advances, pausedLeft, timerVars, countVars, bellVars, pending,
                   unifiedLanes, writes, lastWrite, doneOn, setVars, finishCalls>>

LiveNext ==
    \/ LiveStart
    \/ LivePause
    \/ \E l \in tickLoops : Tick(l)
    \/ OnVisible
    \/ Render
    \/ Effects
    \/ DismissBell
    \/ \E l \in bellLoops : BellStrike(l)
    \/ \E t \in bellTimeouts : BellAutoStop(t)
    \/ LoadComplete
    \/ \E d \in LiveDeltas : LiveAdvance(d)

LiveSpec ==
    /\ Init
    /\ [][LiveNext]_vars
    /\ WF_vars(\E l \in tickLoops : Tick(l))
    /\ WF_vars(Render)
    /\ WF_vars(Effects)
    /\ WF_vars(\E d \in LiveDeltas : LiveAdvance(d))

----------------------------------------------------------------------------
(* Properties *)

TickOps      == {"tick", "tickExpire"}
ExpireOps    == {"tickExpire", "visibleExpire"}
RecomputeOps == {"tick", "tickExpire", "visible", "visibleExpire"}
SwitchOps    == {SwitchOp(m) : m \in ModeKeys}
StopOps      == ExpireOps \cup {"pause", "reset"} \cup SwitchOps

\* the step is the render that follows an expiry, no click in between
ExpiryRendered == lastOp \in ExpireOps /\ lastOp' = "render"

\* C1: expiry fires exactly once per run: a tick or visibility event that finds
\* the anchored remaining time at 0 invokes finishSession, and whatever ticks
\* and visibility events follow, finishSession has been invoked at most once
\* since the run began (the user's last start, or the start snapshot of a run
\* that began without one).
C1_ExpiryOnce ==
    [][/\ finishCalls' <= 1
       /\ (/\ lastOp' \in RecomputeOps
           /\ running /\ startedAtRef # Null
           /\ remainingAtStart * 1000 <= now - startedAtRef)
          => (finishCalls = 0 /\ finishCalls' = 1)]_vars

\* a visibility event after the expiry of a run found it already finished
C1_Witness ==
    /\ lastOp = "visibleNoop"
    /\ finishCalls = 1
    /\ ~running
    /\ sessions = 1

\* C2: the expiry of a run clears the anchor and the tick timer at once, and
\* the render that follows it leaves the timer stopped, in ShortBreak with
\* 300 s after Focus and in Focus with 1500 s after either break; LongBreak is
\* only entered by switchMode.
C2_ExpiryTransition ==
    [][/\ lastOp' \in ExpireOps =>
            /\ startedAtRef' = Null
            /\ intervalRef' = Null
            /\ tickLoops' = {}
       /\ ExpiryRendered =>
            /\ ~running'
            /\ startedAtRef' = Null
            /\ mode' = (IF mode = "focus" THEN "short" ELSE "focus")
            /\ timeLeft' = (IF mode = "focus" THEN 300 ELSE 1500)
            /\ mode' # "long"
       /\ (mode' = "long" /\ mode # "long") => lastOp' = SwitchOp("long")]_vars

\* a short break has expired into Focus
C2_Witness ==
    /\ lastOp = "render"
    /\ mode = "focus"
    /\ timeLeft = 1500
    /\ ~running
    /\ remainingAtStart = 300
    /\ finishCalls = 1
    /\ bellActive
    /\ sessions = 0

\* C3: the render of the expiry of a Focus run adds exactly 1 to the lifetime
\* and the daily counter and issues exactly one write, of the new daily value;
\* every other step leaves the counters alone and issues no write (the startup
\* load only sets the daily counter).
C3_CountPerFocusExpiry ==
    [][IF pending.sessions = 1 /\ pending'.sessions = 0
         THEN /\ sessions' = sessions + 1
              /\ writes' = writes + 1
              /\ pending.daily = <<Inc>> =>
                   /\ dailySessions' = dailySessions + 1
                   /\ lastWrite' = dailySessions'
         ELSE /\ sessions' = sessions
              /\ writes' = writes
              /\ lastWrite' = lastWrite
              /\ (pending.loaded => pending'.loaded) =>
                   dailySessions' = dailySessions]_vars

\* a Focus run expired after the startup load: both counters are 1 and the
\* daily one was written
C3_Witness ==
    /\ lastOp = "render"
    /\ mode = "short"
    /\ loaded
    /\ dailySessions = 1
    /\ lastWrite = 1
    /\ writes = 1
    /\ sessions = 1

\* C4: reset leaves timeLeft at the current mode's duration, the timer stopped,
\* no start snapshot and no tick timer, and the mode as it was.
C4_Reset ==
    [][lastOp' = "reset" =>
         /\ timeLeft' = Duration(mode')
         /\ ~running'
         /\ startedAtRef' = Null
         /\ tickLoops' = {}
         /\ mode' = mode]_vars

\* the timer resting after a switchMode: stopped, and no queued update will set
\* it running
Resting ==
    /\ ~running
    /\ ~RunningAfter(BaseRunning, pending.running)

\* C5: switchMode(X) leaves mode X, X's duration, the timer stopped and no
\* start snapshot, for every X; the timer is then at rest and stays at rest
\* until the user's start.
C5_SwitchMode ==
    [][/\ \A m \in ModeKeys :
            lastOp' = SwitchOp(m) =>
              /\ mode' = m
              /\ timeLeft' = Duration(m)
              /\ ~running'
              /\ startedAtRef' = Null
              /\ tickLoops' = {}
              /\ Resting'
       /\ (lastOp \in SwitchOps /\ lastOp' = "render") =>
            UNCHANGED <<mode, timeLeft, running, startedAtRef>>
       /\ (Resting /\ ~Resting') => lastOp' = "start"]_vars

\* C6: a start that follows a pause anchors the run at the value displayed in
\* the pause and at the instant of the resume, however long the pause lasted.
C6_ResumeAnchor ==
    [][(lastOp' = "start" /\ pausedLeft # Null) =>
         /\ remainingAtStart' = pausedLeft
         /\ startedAtRef' = now
         /\ timeLeft' = pausedLeft]_vars

\* C7: what timeLeft has gone down by since the render of the last reset,
\* switchMode or expiry never exceeds the time spent running since: no running
\* time is counted twice, the half of the claimed equality that the rounding of
\* the display leaves standing.
C7_NoDoubleCount ==
    (restLeft - timeLeft) * 1000 <= runMs

\* the value the last recomputation passed to setTimeLeft
Shown == IF pending.timeLeft = Null THEN timeLeft ELSE pending.timeLeft

\* C8: the value a tick computes is the ceiling of the anchored remaining time
\* floored at 0, a function of the anchor and of the tick's instant alone: the
\* tick passes it to setTimeLeft when it is positive (the least whole number of
\* seconds that covers the remaining time) and expires the run when it is 0.
C8_TickFromAnchor ==
    [][lastOp' \in TickOps =>
         LET ms == remainingAtStart * 1000 - (now - startedAtRef)
         IN  /\ startedAtRef # Null
             /\ lastOp' = "tick" =>
                  /\ Shown' > 0
                  /\ Shown' * 1000 >= ms
                  /\ (Shown' - 1) * 1000 < ms
             /\ lastOp' = "tickExpire" => ms <= 0]_vars

\* a delayed tick took the display down by more than a second in one step
C8_Witness ==
    /\ lastOp = "tick"
    /\ running
    /\ Shown = 1
    /\ timeLeft - Shown > 1
    /\ now - startedAtRef >= (remainingAtStart - 1) * 1000

\* C9: while the anchor of a run stays, the value a recomputation passes to
\* setTimeLeft does not increase as time passes, and it is never above the
\* value the run was anchored at.
C9_Monotone ==
    [][/\ (startedAtRef # Null /\ startedAtRef' = startedAtRef) =>
            ShownSeconds(startedAtRef, remainingAtStart, now') <=
              ShownSeconds(startedAtRef, remainingAtStart, now)
       /\ lastOp' \in {"tick", "visible"} =>
            /\ Shown' = ShownSeconds(startedAtRef, remainingAtStart, now)
            /\ Shown' <= remainingAtStart]_vars

\* a visibility resync lowered the display of a run in progress
C9_Witness ==
    /\ lastOp = "visible"
    /\ running
    /\ Shown < timeLeft
    /\ Shown < remainingAtStart
    /\ startedAtRef < now

\* C10: timeLeft is an integer from 0 to the duration of the current mode.
C10_TimeLeftInRange ==
    /\ timeLeft \in Int
    /\ 0 <= timeLeft
    /\ timeLeft <= Duration(mode)

\* C11: the start snapshot is set after start and cleared after pause, reset,
\* switchMode and expiry, startedAtRef being what marks it as set or cleared
\* (lines 171 and 199 test startedAtRef alone, and remainingAtStart is only
\* read behind that test): a set startedAtRef comes with a set
\* remainingAtStart, and the four handlers leave startedAtRef null.
C11_AnchorSentinel ==
    [][/\ startedAtRef' # Null => remainingAtStart' # Null
       /\ lastOp' \in StopOps =>
            (startedAtRef' = Null /\ remainingAtStart' = remainingAtStart)
       /\ lastOp' = "start" =>
            (running' /\ startedAtRef' # Null /\ remainingAtStart' # Null)]_vars

\* C12: after any sequence of start() and stop() calls at most one repeating
\* strike loop and at most one auto-stop timer are outstanding.
C12_OneBellLoop ==
    /\ Cardinality(bellLoops) <= 1
    /\ Cardinality(bellTimeouts) <= 1

\* C13: once stop() has returned (the manager holds no interval id) no strike
\* is rendered until the next start(); a dismissal also hides the banner and
\* empties the message.
C13_SilentAfterStop ==
    [][/\ lastOp' = "bellStrike" => bellIntervalId # Null
       /\ lastOp' = "dismiss" => (~bellActive' /\ alertMsg' = "")]_vars

\* C14: after a start() the bell strikes at once and then every 4 seconds, no
\* strike is later than 60 seconds after the last start(), and once the 60
\* seconds are over no interval or timeout is outstanding.
C14_RingWindow ==
    [][/\ lastOp' = "bellStart" => lastStrike' = now
       /\ lastOp' = "bellStrike" =>
            /\ now = lastStrike + BellPeriod
            /\ now <= lastBellStart + BellTimeout
       /\ (lastBellStart' # Null /\ now' > lastBellStart' + BellTimeout) =>
            (bellLoops' = {} /\ bellTimeouts' = {})]_vars

\* C15: the value stored under the key of a day after the day of the mount
\* counts the Focus sessions completed on that day only.
C15_NewDayCountsOwn ==
    \A d \in Days :
        (d # TodayKey(Epoch) /\ store[d] # Absent) => store[d] = doneOn[d]

\* the render that issues a write is that of the expiry of a Focus run: it
\* increments the lifetime counter and, when no click came in between, leaves
\* the timer in the short break, the daily counter incremented and the
\* completion message as the alert, whatever the write will do; the write
\* carries today's key and the in-memory daily counter as incremented, and
\* the storage is as it was
WriteIssue ==
    writes' = writes + 1 =>
      /\ sessions' = sessions + 1
      /\ pending.daily = <<Inc>> => lastWrite' = dailySessions'
      /\ ExpiryRendered =>
           /\ mode' = "short" /\ timeLeft' = 300 /\ ~running'
           /\ pending.daily = <<Inc>> => dailySessions' = dailySessions + 1
           /\ alertMsg' = FocusMsg
      /\ store' = store
      /\ setsFailed' = setsFailed
      /\ inFlight' = inFlight \cup {[key   |-> TodayKey(now),
                                     value |-> lastWrite',
                                     seq   |-> writes']}

\* the completion of the write w, failed or not, changes no timer state,
\* counter, alert or queued update; a failed one leaves the storage as it was,
\* a successful one stores the value w carries under the key w carries
WriteDone(w) ==
    /\ UNCHANGED <<timerVars, sessions, dailySessions, loaded, bellVars, pending,
                   now, lastOp>>
    /\ \/ /\ setsFailed' = setsFailed + 1
          /\ store' = store
       \/ /\ setsFailed' = setsFailed
          /\ store' = [store EXCEPT ![w.key] = w.value]

\* the write w is the last one issued, a write has failed before it and it
\* succeeds: the stored value is then the in-memory daily counter
NextWriteStoresCount(w) ==
    (setsFailed > 0 /\ setsFailed' = setsFailed /\ w.seq = writes) =>
      store'[w.key] = dailySessions'

\* every write is issued and completes as described, failed or not
WriteLeavesTimer ==
    [][WriteIssue /\ \A w \in inFlight \ inFlight' : WriteDone(w)]_vars

\* where the startup load has discarded no increment (C20), the last write
\* issued, when it succeeds, stores the in-memory daily counter
WriteStoresCount ==
    [][\A w \in inFlight \ inFlight' :
         (/\ setsFailed' = setsFailed
          /\ w.seq = writes
          /\ loaded
          /\ dailySessions = loadValue + sessions)
         => store'[w.key] = dailySessions']_vars

\* the write of the first Focus run of the day failed and the write of the
\* second one succeeded: the stored value is the in-memory daily counter, 2
WriteRecovered ==
    /\ setsFailed = 1
    /\ writes = 2
    /\ inFlight = {}
    /\ loaded
    /\ sessions = 2
    /\ dailySessions = 2
    /\ store[TodayKey(now)] = 2
    /\ \A d \in Days : d # TodayKey(now) => store[d] = Absent

\* C16: a failing write changes no timer state and is not surfaced: the mode
\* transition, timeLeft, running and the in-memory counters are those of a
\* successful write; and the next successful write on the same day stores the
\* full cumulative in-memory daily count, so that the stored value then equals
\* the in-memory daily counter.
C16_WriteBestEffort ==
    [][/\ WriteIssue
       /\ \A w \in inFlight \ inFlight' :
            WriteDone(w) /\ NextWriteStoresCount(w)]_vars

\* C17: a running timer eventually stops running (by its expiry) unless the
\* user clicks the pause button, whatever the storage, the startup load and
\* the alert do.
C17_NeverStuck == (running /\ lastOp # "pause") ~> (~running \/ lastOp = "pause")

\* C18: at most one tick timer is outstanding; pause, reset, switchMode and
\* expiry leave none, a tick callback only runs with a start snapshot, and a
\* pause leaves the mode as it is and the timer stopped, with no expiry and no
\* change of mode until the user acts again.
C18_OneTickLoop ==
    [][/\ Cardinality(tickLoops') <= 1
       /\ lastOp' \in StopOps => tickLoops' = {}
       /\ lastOp' \in TickOps => startedAtRef # Null
       /\ lastOp' = "pause" => (mode' = mode /\ ~running')
       /\ pausedLeft # Null =>
            /\ finishCalls' <= finishCalls
            /\ mode' # mode => lastOp' \in SwitchOps
            /\ running' => lastOp' = "start"]_vars

\* C19: a visibility event in a running timer with a start snapshot does what
\* a tick at that instant does (it passes the ceiling of the anchored remaining
\* time to setTimeLeft, or expires the run when that is 0); any other
\* visibility event changes nothing.
C19_VisibleAsTick ==
    [][/\ lastOp' \in {"visible", "visibleExpire"} =>
            /\ running /\ startedAtRef # Null
            /\ UNCHANGED <<mode, timeLeft, running, remainingAtStart, sessions,
                           dailySessions, store, bellActive, alertMsg>>
            /\ LET ms == remainingAtStart * 1000 - (now - startedAtRef)
               IN  IF ms > 0
                     THEN /\ lastOp' = "visible"
                          /\ Shown' * 1000 >= ms
                          /\ (Shown' - 1) * 1000 < ms
                          /\ UNCHANGED <<startedAtRef, bellMgrVars, tickLoops>>
                          /\ pending' \in {pending,
                                           [pending EXCEPT !.timeLeft = Shown']}
                     ELSE /\ lastOp' = "visibleExpire"
                          /\ startedAtRef' = Null /\ tickLoops' = {}
                          /\ pending'.running = <<"false">>
                          /\ pending'.mode = NextModeAfter(mode)
                          /\ pending'.timeLeft = Duration(NextModeAfter(mode))
                          /\ pending'.sessions = IF mode = "focus" THEN 1 ELSE 0
                          /\ pending'.alert \in {FocusMsg, BreakMsg}
                          /\ finishCalls' = finishCalls + 1
                          /\ lastStrike' = now
       /\ lastOp' = "visibleNoop" =>
            /\ ~running \/ startedAtRef = Null
            /\ UNCHANGED <<mode, timeLeft, running, startedAtRef, remainingAtStart,
                           sessions, dailySessions, store, bellVars, tickLoops,
                           pending>>]_vars

\* C20: once the startup load has completed, the daily counter is the loaded
\* value plus the Focus sessions completed since the mount.
C20_LoadKeepsIncrements ==
    loaded => dailySessions = loadValue + sessions

\* C21: the value stored under a day's key never decreases: every successful
\* write to a key stores at least the value the key held before, also when the
\* startup read failed or came back late and the counter started from zero.
C21_StoredNeverDecreases ==
    [][\A d \in Days :
         store'[d] # store[d] => (store[d] = Absent \/ store'[d] >= store[d])]_vars

====
